---- MODULE Spec2Model ----
(***************************************************************************)
(* A model of src/wrappers.py: the ctypes view of the inode file system    *)
(* (Superblock, free list, inode table, data blocks) and the helpers that  *)
(* write to it: set_dir, set_fil, mkdir, set_data_block, and the TInode    *)
(* expectation object with its methods __setitem__, pin and check.         *)
(*                                                                         *)
(* Every helper is an operator from a volume (and its arguments) to the    *)
(* volume it leaves behind and the way the call ended ("ok" or the name    *)
(* of the Python exception that ended it).  The actions apply one helper   *)
(* call each to the current volume.                                        *)
(***************************************************************************)
EXTENDS Integers, Sequences, FiniteSets, TLC

VARIABLES
    s_block,      \* fs.s_block[0]: [num_blocks, free_blocks (as u32 halves)]
    free_list,    \* fs.free_list: block index -> uint8 marker (0 = used)
    inodes,       \* fs.inodes: inode index -> Inode record
    data_blocks,  \* fs.data_blocks: block index -> DataBlock record
    fixture,      \* which calls had been made on the volume when the model takes it up
    models,       \* the TInode objects the test holds, in the order they were built
    lists,        \* the Python list objects alive: reference -> list of ints
    last,         \* the last helper call: its name, arguments and how it ended
    calls         \* number of helper calls made on this volume since Init

vars == <<s_block, free_list, inodes, data_blocks, fixture, models, lists, last, calls>>

-----------------------------------------------------------------------------
(* Program constants                                                       *)

BLOCK_SIZE == 1024
NAME_MAX_LENGTH == 32
DIRECT_BLOCKS_COUNT == 12

\* NodeType
reg_file == 1
directory == 2
free_block == 3

\* c_uint16: what a field of that width keeps of an int
Uint16 == 2^16

\* c_uint32.  TLC's integers end at 2^31 - 1, so a c_uint32 value is kept as
\* its two 16-bit halves <<high, low>>.
u32(n) == <<n \div Uint16, n % Uint16>>
\* the field after  field = field - 1
u32_minus1(x) ==
    IF x[2] > 0 THEN <<x[1], x[2] - 1>> ELSE <<(x[1] - 1) % Uint16, Uint16 - 1>>
u32_le(x, y) == x[1] < y[1] \/ (x[1] = y[1] /\ x[2] <= y[2])

\* the empty-slot value of direct_blocks
EMPTY == 0 - 1

-----------------------------------------------------------------------------
(* Bounds of the model                                                     *)

\* fs_size handed to setup(): the volume has inodes and blocks 0..NumBlocks-1
NumBlocks == 16
\* helper calls made after Init
MaxCalls == 2

\* Of the 1024 payload bytes of a data block the model keeps these offsets.
\* A copy of data_size bytes writes exactly the kept offsets below data_size.
TrackedOffsets == {0, 4, BLOCK_SIZE - 1}

Slots == 0 .. (DIRECT_BLOCKS_COUNT - 1)

-----------------------------------------------------------------------------
(* Names.  A Python str is the sequence of its code points.                *)

Padded(s) == s \o [i \in 1 .. (NAME_MAX_LENGTH - Len(s)) |-> 32]

\* "dir2" and "file", padded with blanks to 32 characters, and "dir2" unpadded
NameDir2 == Padded(<<100, 105, 114, 50>>)
NameFile == Padded(<<102, 105, 108, 101>>)
NameShort == <<100, 105, 114, 50>>

\* bytes(name, "utf-8"), for code points below 2048
RECURSIVE utf8(_)
utf8(s) ==
    IF s = <<>> THEN <<>>
    ELSE (IF Head(s) < 128 THEN <<Head(s)>>
          ELSE <<192 + (Head(s) \div 64), 128 + (Head(s) % 64)>>) \o utf8(Tail(s))

\* What Inode.name reads after bytes b were assigned to the c_char buffer:
\* the bytes before the first NUL.
RECURSIVE char_value(_)
char_value(b) ==
    IF b = <<>> \/ Head(b) = 0 THEN <<>> ELSE <<Head(b)>> \o char_value(Tail(b))

-----------------------------------------------------------------------------
(* The volume                                                              *)

\* An inode table entry no insertion has touched
FreeInode ==
    [n_type |-> free_block, size |-> 0, name |-> <<>>,
     direct_blocks |-> [i \in Slots |-> EMPTY], parent |-> 0]

EmptyBlock == [size |-> 0, block |-> [o \in TrackedOffsets |-> 0]]

\* libc.fs_create(path, n): a volume of n slots, all blocks free, the root
\* directory at index 1 with parent 0.
fs_create(n) ==
    [s_block |-> [num_blocks |-> n, free_blocks |-> u32(n)],
     free_list |-> [b \in 0 .. (n - 1) |-> 1],
     inodes |-> [i \in 0 .. (n - 1) |->
                   IF i = 1 THEN [FreeInode EXCEPT !.n_type = directory] ELSE FreeInode],
     data_blocks |-> [b \in 0 .. (n - 1) |-> EmptyBlock]]

setup(fs_size) == fs_create(fs_size)

\* The volume the variables hold
FS ==
    [s_block |-> s_block, free_list |-> free_list,
     inodes |-> inodes, data_blocks |-> data_blocks]

-----------------------------------------------------------------------------
(* set_dir, set_fil                                                        *)

set_node(n_type, name, inode, parent, parent_block, fs) ==
    LET f1 == [fs EXCEPT !.inodes[inode].n_type = n_type]
    IN  IF Len(utf8(name)) > NAME_MAX_LENGTH
        THEN [fs |-> f1, err |-> "ValueError"]
        ELSE LET f2 == [f1 EXCEPT !.inodes[inode].name = char_value(utf8(name))]
                 f3 == [f2 EXCEPT !.inodes[inode].parent = parent]
                 f4 == [f3 EXCEPT !.inodes[parent].direct_blocks[parent_block] = inode]
             IN  [fs |-> f4, err |-> "ok"]

set_dir(name, inode, parent, parent_block, fs) ==
    set_node(directory, name, inode, parent, parent_block, fs)

set_fil(name, inode, parent, parent_block, fs) ==
    set_node(reg_file, name, inode, parent, parent_block, fs)

-----------------------------------------------------------------------------
(* TInode.  An optional int (int | None) is a set with at most one member. *)
(* A Python list is an object: a TInode holds a reference to its blocks    *)
(* list, and lists maps the references to the lists' present contents     *)
(* (element i of a Python list is element i + 1 of the sequence).          *)

\* the list the default of the blocks parameter is bound to, made once when
\* the def statement runs, and the reference every defaulted call receives
DefaultBlocks == [i \in 1 .. 12 |-> 0]
DefaultRef == 0

\* the reference a newly made list gets: the lowest one not in use
NewRef(h) ==
    CHOOSE r \in 0 .. Cardinality(DOMAIN h) :
        r \notin DOMAIN h /\ \A q \in 0 .. (r - 1) : q \in DOMAIN h

\* TInode(...) keeping the argument list itself when it needs no padding
TInode_init_keeps_list(h, fs, name, n_type, parent, idx, blocks) ==
    LET arg == h[blocks]
        sum == arg \o [i \in 1 .. (DIRECT_BLOCKS_COUNT - Len(arg)) |-> EMPTY]
        ref == IF Len(arg) = DIRECT_BLOCKS_COUNT THEN blocks ELSE NewRef(h)
        self == [name |-> name, n_type |-> n_type, parent |-> parent,
                 blocks |-> ref, idx |-> idx]
        raised(e) == [err |-> e, self |-> {}, lists |-> h]
    IN  IF Len(name) # 32 THEN raised("AssertionError")
        ELSE IF ~(parent > 0 /\ parent < fs.s_block.num_blocks)
        THEN raised("AssertionError")
        ELSE IF fs.inodes[parent].n_type # directory
        THEN raised("AssertionError")
        ELSE IF ~(Len(arg) <= DIRECT_BLOCKS_COUNT)
        THEN raised("AssertionError")
        ELSE IF idx # {}
        THEN IF \E i \in idx : ~(i > 0)
             THEN raised("AssertionError")
             ELSE raised("AttributeError")
        ELSE [err |-> "ok", self |-> {self},
              lists |-> IF ref = blocks THEN h ELSE h @@ (ref :> sum)]

\* TInode(fs, name, n_type, parent, idx, blocks) with the lists h alive;
\* blocks is the reference of the argument list
TInode_init(h, fs, name, n_type, parent, idx, blocks) ==
    LET arg == h[blocks]
        \* blocks + [-1] * (12 - len(blocks)): a list of its own
        sum == arg \o [i \in 1 .. (DIRECT_BLOCKS_COUNT - Len(arg)) |-> EMPTY]
        ref == NewRef(h)
        self == [name |-> name, n_type |-> n_type, parent |-> parent,
                 blocks |-> ref, idx |-> idx]
        raised(e) == [err |-> e, self |-> {}, lists |-> h]
    IN  IF Len(name) # 32 THEN raised("AssertionError")
        ELSE IF ~(parent > 0 /\ parent < fs.s_block.num_blocks)
        THEN raised("AssertionError")
        ELSE IF fs.inodes[parent].n_type # directory
        THEN raised("AssertionError")
        ELSE IF ~(Len(arg) <= DIRECT_BLOCKS_COUNT)
        THEN raised("AssertionError")
        ELSE IF idx # {}
        THEN \* the assertion reads s_block[0].num_block, which Superblock
             \* does not have: the right operand of "and" raises
             IF \E i \in idx : ~(i > 0)
             THEN raised("AssertionError")
             ELSE raised("AttributeError")
        ELSE [err |-> "ok", self |-> {self}, lists |-> h @@ (ref :> sum)]

\* A key or value handed to __setitem__ is an int or a str: a record of two
\* sets, one of them holding the one value
IntVal(i) == [int |-> {i}, str |-> {}]
StrVal(x) == [int |-> {}, str |-> {x}]

\* pin(idx)
TInode_pin(self, idx) ==
    IF ~(idx > 0) THEN [err |-> "AssertionError", self |-> self]
    ELSE [err |-> "ok", self |-> [self EXCEPT !.idx = {idx}]]

\* self[key] = value, with the lists h alive
TInode_setitem(h, self, key, value) ==
    LET raised(e) == [err |-> e, self |-> self, lists |-> h]
        set(t) == [err |-> "ok", self |-> t, lists |-> h]
    IN  IF key.str = {"name"}
        THEN IF \E v \in value.str : Len(v) <= NAME_MAX_LENGTH
             THEN set([self EXCEPT !.name = CHOOSE v \in value.str : TRUE])
             ELSE raised("AssertionError")
        ELSE IF key.str = {"n_ntype"}
        THEN IF value.int = {} THEN raised("AssertionError")
             ELSE IF value.int \subseteq {reg_file, directory, free_block}
             THEN set([self EXCEPT !.n_type = CHOOSE v \in value.int : TRUE])
             ELSE raised("ValueError")
        ELSE IF key.str = {"parent"}
        THEN IF \E v \in value.int : v > 0
             THEN set([self EXCEPT !.parent = CHOOSE v \in value.int : TRUE])
             ELSE raised("AssertionError")
        ELSE IF key.str = {"idx"}
        THEN IF value.int = {} THEN raised("AssertionError")
             ELSE LET r == TInode_pin(self, CHOOSE v \in value.int : TRUE)
                  IN  [err |-> r.err, self |-> r.self, lists |-> h]
        ELSE IF key.int # {} /\ value.int # {}
        THEN LET k == CHOOSE i \in key.int : TRUE
                 v == CHOOSE i \in value.int : TRUE
                 n == Len(h[self.blocks])
                 \* a list takes the indices -len .. len - 1
                 pos == IF k < 0 THEN k + n ELSE k
             IN  IF ~(v > 0) THEN raised("AssertionError")
                 ELSE IF pos < 0 \/ pos >= n THEN raised("IndexError")
                 ELSE [err |-> "ok", self |-> self,
                       lists |-> [h EXCEPT ![self.blocks][pos + 1] = v]]
        ELSE raised("KeyError")

\* bytes.decode("utf-8"), for the encodings of code points below 2048
RECURSIVE decode(_)
decode(b) ==
    IF b = <<>> THEN <<>>
    ELSE IF Head(b) < 128 THEN <<Head(b)>> \o decode(Tail(b))
    ELSE <<(Head(b) - 192) * 64 + (b[2] - 128)>> \o decode(Tail(Tail(b)))

\* The all(...) over the slots d, d + 1, .. of inode idx that asks each
\* referenced inode for parent == idx, in slot order up to the first failure.
\* fs.inodes is a bare pointer: an index outside the table, the -1 of an
\* empty slot among them, reads memory that is not an inode, and the read
\* ends the process or yields a number that is idx or is not.
RECURSIVE check_children(_, _, _)
check_children(fs, idx, d) ==
    IF d >= DIRECT_BLOCKS_COUNT THEN {"ok"}
    ELSE LET block == fs.inodes[idx].direct_blocks[d]
         IN  IF block \in DOMAIN fs.inodes
             THEN IF fs.inodes[block].parent = idx
                  THEN check_children(fs, idx, d + 1)
                  ELSE {"AssertionError"}
             ELSE {"AssertionError", "SegmentationFault"}
                      \cup check_children(fs, idx, d + 1)

\* check with the last comparison made on the values the two hold, in any order
TInode_check_any_order(h, fs, self, idx, check_parents) ==
    IF self.idx = {} THEN {[err |-> "AttributeError", line |-> 147]}
    ELSE
    LET me == CHOOSE i \in self.idx : TRUE
        raised(n) == {[err |-> "AssertionError", line |-> n]}
    IN  IF ~(me > 0 /\ me < fs.s_block.num_blocks) THEN raised(152)
        ELSE IF decode(fs.inodes[me].name) # self.name THEN raised(155)
        ELSE IF fs.inodes[me].n_type # self.n_type THEN raised(156)
        ELSE IF fs.inodes[me].parent # self.parent THEN raised(157)
        ELSE
        LET positional ==
                IF {fs.inodes[me].direct_blocks[i] : i \in Slots}
                       = {h[self.blocks][i + 1] : i \in Slots}
                THEN {[err |-> "ok", line |-> 0]} ELSE raised(172)
            p == fs.inodes[me].parent
            ch == check_children(fs, me, 0)
            children ==
                {[err |-> e, line |-> 164] : e \in ch \ {"ok"}}
                    \cup (IF "ok" \in ch THEN positional ELSE {})
        IN  IF ~check_parents THEN positional
            ELSE IF p \notin DOMAIN fs.inodes
            THEN raised(161) \cup {[err |-> "SegmentationFault", line |-> 161]}
                     \cup children
            ELSE IF ~(\E i \in Slots : fs.inodes[p].direct_blocks[i] = me)
            THEN raised(161)
            ELSE children

\* self.check(fs, idx, check_parents) with the lists h alive: the ways the
\* call can end, each with the line of the statement that raised (0 if none).
\* The object gets its idx attribute from pin alone (the constructor raises
\* when handed one), so on an object never pinned the first statement finds
\* no attribute to read, and the assignment self.idx = idx is never reached.
TInode_check(h, fs, self, idx, check_parents) ==
    IF self.idx = {} THEN {[err |-> "AttributeError", line |-> 147]}
    ELSE
    LET me == CHOOSE i \in self.idx : TRUE
        raised(n) == {[err |-> "AssertionError", line |-> n]}
    IN  IF ~(me > 0 /\ me < fs.s_block.num_blocks) THEN raised(152)
        ELSE IF decode(fs.inodes[me].name) # self.name THEN raised(155)
        ELSE IF fs.inodes[me].n_type # self.n_type THEN raised(156)
        ELSE IF fs.inodes[me].parent # self.parent THEN raised(157)
        ELSE
        LET \* the last statement: the twelve positions, one by one
            positional ==
                IF \A i \in Slots :
                       fs.inodes[me].direct_blocks[i] = h[self.blocks][i + 1]
                THEN {[err |-> "ok", line |-> 0]} ELSE raised(172)
            p == fs.inodes[me].parent
            ch == check_children(fs, me, 0)
            children ==
                {[err |-> e, line |-> 164] : e \in ch \ {"ok"}}
                    \cup (IF "ok" \in ch THEN positional ELSE {})
        IN  IF ~check_parents THEN positional
            ELSE IF p \notin DOMAIN fs.inodes
            THEN \* the parent's slots are read off the table's end
                 raised(161) \cup {[err |-> "SegmentationFault", line |-> 161]}
                     \cup children
            ELSE IF ~(\E i \in Slots : fs.inodes[p].direct_blocks[i] = me)
            THEN raised(161)
            ELSE children

-----------------------------------------------------------------------------
(* mkdir                                                                   *)

\* the for loop of mkdir: the lowest slot of the parent holding -1, if any
first_empty(fs, parent) ==
    LET E == {i \in Slots : fs.inodes[parent].direct_blocks[i] = EMPTY}
    IN  IF E = {} THEN {} ELSE {CHOOSE i \in E : \A j \in E : i <= j}

\* mkdir with the child's entry written before anything is validated
mkdir_writes_first(h, fs, name, idx, parent, parent_direct_block) ==
    LET f1 == [fs EXCEPT !.inodes[idx].n_type = directory]
        f2 == [f1 EXCEPT !.inodes[idx].name = char_value(utf8(name))]
        f3 == [f2 EXCEPT !.inodes[idx].parent = parent]
        t == TInode_init(h, fs, name, directory, parent, {idx}, DefaultRef)
    IN  IF t.err # "ok" THEN [fs |-> f3, err |-> t.err, ret |-> {}, lists |-> h]
        ELSE LET pdb == IF parent_direct_block = {} THEN first_empty(fs, parent)
                        ELSE parent_direct_block
             IN  IF pdb = {}
                 THEN [fs |-> f3, err |-> "LookupError", ret |-> {}, lists |-> h]
                 ELSE [fs |-> [f3 EXCEPT !.inodes[parent].direct_blocks[
                                             CHOOSE s \in pdb : TRUE] = idx],
                       err |-> "ok", ret |-> t.self, lists |-> t.lists]

mkdir(h, fs, name, idx, parent, parent_direct_block) ==
    LET t == TInode_init(h, fs, name, directory, parent, {idx}, DefaultRef)
    IN  IF t.err # "ok" THEN [fs |-> fs, err |-> t.err, ret |-> {}, lists |-> h]
        ELSE IF parent_direct_block = {}
                /\ ~(parent > 0 /\ parent < fs.s_block.num_blocks)
        THEN [fs |-> fs, err |-> "AssertionError", ret |-> {}, lists |-> h]
        ELSE
        LET inode == CHOOSE m \in t.self : TRUE
            pdb == IF parent_direct_block = {} THEN first_empty(fs, parent)
                   ELSE parent_direct_block
        IN  IF pdb = {}
            THEN [fs |-> fs, err |-> "LookupError", ret |-> {}, lists |-> h]
            ELSE
            LET slot == CHOOSE s \in pdb : TRUE
                f1 == [fs EXCEPT !.inodes[idx].n_type = inode.n_type]
                f2 == [f1 EXCEPT !.inodes[idx].name = char_value(utf8(inode.name))]
                f3 == [f2 EXCEPT !.inodes[idx].parent = parent]
                f4 == [f3 EXCEPT !.inodes[parent].direct_blocks[slot] =
                                     CHOOSE i \in inode.idx : TRUE]
                f5 == [f4 EXCEPT !.inodes[idx].direct_blocks =
                                     [i \in Slots |-> t.lists[inode.blocks][i + 1]]]
            IN  [fs |-> f5, err |-> "ok", ret |-> {inode}, lists |-> t.lists]

-----------------------------------------------------------------------------
(* set_data_block                                                          *)

\* the while loop that recomputes the owner's size, entered at slot i
RECURSIVE size_scan(_, _, _)
size_scan(fs, parent_inode, i) ==
    IF i >= DIRECT_BLOCKS_COUNT
    THEN [fs |-> fs, err |-> "IndexError"]
    ELSE IF fs.inodes[parent_inode].direct_blocks[i] # EMPTY
    THEN size_scan(
             [fs EXCEPT !.inodes[parent_inode].size =
                 (@ + fs.data_blocks[fs.inodes[parent_inode].direct_blocks[i]].size)
                    % Uint16],
             parent_inode, i + 1)
    ELSE [fs |-> fs, err |-> "ok"]

\* set_data_block with the size test made after the block's size is written
set_data_block_late_check(block_num, data, data_size, parent_inode, parent_block_num, fs) ==
    LET f1 == [fs EXCEPT !.data_blocks[block_num].size = data_size]
    IN  IF data_size > 1024 THEN [fs |-> f1, err |-> "SystemExit"]
        ELSE
        LET f2 == [f1 EXCEPT !.data_blocks[block_num].block =
                       [o \in TrackedOffsets |-> IF o < data_size THEN data ELSE @[o]]]
            f3 == [f2 EXCEPT !.inodes[parent_inode].direct_blocks[parent_block_num] =
                       block_num]
            f4 == [f3 EXCEPT !.inodes[parent_inode].size = 0]
            sc == size_scan(f4, parent_inode, 0)
        IN  IF sc.err # "ok" THEN sc
            ELSE [fs |-> [sc.fs EXCEPT !.free_list[block_num] = 0,
                                       !.s_block.free_blocks = u32_minus1(@)],
                  err |-> "ok"]

\* set_data_block without the reset of the owner's size before the scan
set_data_block_keep_size(block_num, data, data_size, parent_inode, parent_block_num, fs) ==
    IF data_size > 1024 THEN [fs |-> fs, err |-> "SystemExit"]
    ELSE
    LET f1 == [fs EXCEPT !.data_blocks[block_num].size = data_size]
        f2 == [f1 EXCEPT !.data_blocks[block_num].block =
                   [o \in TrackedOffsets |-> IF o < data_size THEN data ELSE @[o]]]
        f3 == [f2 EXCEPT !.inodes[parent_inode].direct_blocks[parent_block_num] =
                   block_num]
        sc == size_scan(f3, parent_inode, 0)
    IN  IF sc.err # "ok" THEN sc
        ELSE [fs |-> [sc.fs EXCEPT !.free_list[block_num] = 0,
                                   !.s_block.free_blocks = u32_minus1(@)],
              err |-> "ok"]

\* data is the byte every position of the payload holds; the payload is at
\* least data_size long, as set_data_block_with_string passes it.
set_data_block(block_num, data, data_size, parent_inode, parent_block_num, fs) ==
    IF data_size > 1024 THEN [fs |-> fs, err |-> "SystemExit"]
    ELSE
    LET f1 == [fs EXCEPT !.data_blocks[block_num].size = data_size]
        f2 == [f1 EXCEPT !.data_blocks[block_num].block =
                   [o \in TrackedOffsets |-> IF o < data_size THEN data ELSE @[o]]]
        f3 == [f2 EXCEPT !.inodes[parent_inode].direct_blocks[parent_block_num] =
                   block_num]
        f4 == [f3 EXCEPT !.inodes[parent_inode].size = 0]
        sc == size_scan(f4, parent_inode, 0)
    IN  IF sc.err # "ok" THEN sc
        ELSE
        LET f5 == [sc.fs EXCEPT !.free_list[block_num] = 0]
            f6 == [f5 EXCEPT !.s_block.free_blocks = u32_minus1(@)]
        IN  [fs |-> f6, err |-> "ok"]

-----------------------------------------------------------------------------
(* Call records, and volumes a test has already worked on                  *)

Call(op, name, idx, parent, slot, size) ==
    [op |-> op, name |-> name, idx |-> idx, parent |-> parent,
     slot |-> slot, size |-> size]

NoCall == Call("none", <<>>, 0, 0, {}, 0)

\* the byte the payloads of the model are made of ("h")
PayloadByte == 104

Apply(fs, c) ==
    CASE c.op = "set_dir" ->
            set_dir(c.name, c.idx, c.parent, CHOOSE s \in c.slot : TRUE, fs)
      [] c.op = "set_fil" ->
            set_fil(c.name, c.idx, c.parent, CHOOSE s \in c.slot : TRUE, fs)
      [] c.op = "set_data_block" ->
            set_data_block(c.idx, PayloadByte, c.size, c.parent,
                           CHOOSE s \in c.slot : TRUE, fs)

\* the volume after the calls cs, made in order; a call that raises ends the script
RECURSIVE Replay(_, _)
Replay(fs, cs) ==
    IF cs = <<>> THEN fs
    ELSE LET r == Apply(fs, Head(cs))
         IN  IF r.err = "ok" THEN Replay(r.fs, Tail(cs)) ELSE r.fs

\* a file at inode 2 under the root
ScriptFile == <<Call("set_fil", NameFile, 2, 1, {0}, 0)>>

\* the root with every slot taken: twelve insertions of directories 2 and 3
ScriptFullDir ==
    [i \in 1 .. DIRECT_BLOCKS_COUNT |->
        Call("set_dir", NameDir2, 2 + (i % 2), 1, {i - 1}, 0)]

\* the file with blocks 0..10 attached to its slots 0..10
ScriptFilled ==
    ScriptFile \o
    [i \in 1 .. (DIRECT_BLOCKS_COUNT - 1) |->
        Call("set_data_block", <<>>, i - 1, 2, {i - 1},
             IF i % 2 = 1 THEN BLOCK_SIZE ELSE 5)]

\* then every remaining block attached to slot 0 in turn: free_blocks is 0
ScriptExhausted ==
    ScriptFilled \o
    [i \in 1 .. (NumBlocks - (DIRECT_BLOCKS_COUNT - 1)) |->
        Call("set_data_block", <<>>, (DIRECT_BLOCKS_COUNT - 1) + (i - 1), 2, {0}, 5)]

\* directories 2 and 4 put into slot 0 of the root, 4 first, so that the
\* root refers to 2 only; and directory 3 in slot 0 of directory 2
ScriptTree ==
    <<Call("set_dir", NameDir2, 4, 1, {0}, 0),
      Call("set_dir", NameDir2, 2, 1, {0}, 0),
      Call("set_dir", NameDir2, 3, 2, {0}, 0)>>

\* the call sequences a volume has been through when the model takes it up
Fixtures ==
    [fresh |-> <<>>, file |-> ScriptFile, full_dir |-> ScriptFullDir,
     filled_file |-> ScriptFilled, exhausted |-> ScriptExhausted,
     tree |-> ScriptTree]

\* the lists something still refers to: the default of the blocks parameter
\* and the blocks of the objects ms
Alive(h, ms) ==
    [r \in ({DefaultRef} \cup {ms[i].blocks : i \in DOMAIN ms}) \cap DOMAIN h |-> h[r]]

\* no TInode built yet
NoModels ==
    [err |-> "ok", models |-> <<>>, lists |-> (DefaultRef :> DefaultBlocks)]

\* TInode(fs, name, n_type, parent) or TInode(fs, name, n_type, parent,
\* blocks=[...]) by a test holding the objects w.models: blocks is {} or holds
\* the list written in the call, which is a list object of its own
Construct(w, fs, name, n_type, parent, blocks) ==
    LET a == IF blocks = {} THEN DefaultRef ELSE NewRef(w.lists)
        h == IF blocks = {} THEN w.lists
             ELSE w.lists @@ (a :> CHOOSE b \in blocks : TRUE)
        t == TInode_init(h, fs, name, n_type, parent, {}, a)
        ms == IF t.err = "ok" THEN Append(w.models, CHOOSE m \in t.self : TRUE)
              ELSE w.models
    IN  [err |-> t.err, models |-> ms, lists |-> Alive(t.lists, ms)]

\* the objects a test of the tree holds: the expectation for directory 2,
\* pinned to it, and an object built without a block list
TreeModels(fs) ==
    LET w1 == Construct(NoModels, fs, NameDir2, directory, 1, {<<3>>})
        p == TInode_pin(w1.models[1], 2)
    IN  Construct([w1 EXCEPT !.models[1] = p.self], fs, NameDir2, directory, 1, {})

Held(f, fs) == IF f = "tree" THEN TreeModels(fs) ELSE NoModels

-----------------------------------------------------------------------------
(* The state machine                                                       *)

Init ==
    \E f \in DOMAIN Fixtures :
      LET v == Replay(setup(NumBlocks), Fixtures[f])
      IN
        /\ fixture = f
        /\ s_block = v.s_block
        /\ free_list = v.free_list
        /\ inodes = v.inodes
        /\ data_blocks = v.data_blocks
        /\ models = Held(f, v).models
        /\ lists = Held(f, v).lists
        /\ last = [NoCall EXCEPT !.op = "setup"] @@ [outcome |-> "ok"]
        /\ calls = 0

\* arguments the calls are made with
InodeArgs == {2, 3}
ParentArgs == {1, 2, 3}
SlotArgs == {0, 1, DIRECT_BLOCKS_COUNT - 1}
BlockArgs == {4, 5}
OwnerArgs == {1, 2}
SizeArgs == {0, 5, BLOCK_SIZE, BLOCK_SIZE + 1}
NameArgs == {NameDir2, NameShort}
MkdirIdxArgs == {0, 2}
MkdirParentArgs == {0, 1, 2}

\* block lists written in a constructor call: none, [], [3], [-1, 3]
BlockListArgs == {{}, {<<>>}, {<<3>>}, {<<EMPTY, 3>>}}
PinArgs == {0, 2, 4}
KeyArgs ==
    {IntVal(1), IntVal(DIRECT_BLOCKS_COUNT), StrVal("name"), StrVal("n_type"),
     StrVal("n_ntype"), StrVal("parent"), StrVal("idx")}
ValueArgs == {IntVal(0), IntVal(3), StrVal(NameFile)}

\* exit() and a fault end the process: no call follows them
Running == last.outcome \notin {"SystemExit", "SegmentationFault"} /\ calls < MaxCalls

\* what the test holds
Objects == [err |-> "ok", models |-> models, lists |-> lists]

Done(c, r) ==
    /\ s_block' = r.fs.s_block
    /\ free_list' = r.fs.free_list
    /\ inodes' = r.fs.inodes
    /\ data_blocks' = r.fs.data_blocks
    /\ last' = c @@ [outcome |-> r.err]
    /\ calls' = calls + 1
    /\ UNCHANGED fixture

SetDir ==
    /\ Running
    /\ \E inode \in InodeArgs, parent \in ParentArgs, pb \in SlotArgs :
          Done(Call("set_dir", NameDir2, inode, parent, {pb}, 0),
               set_dir(NameDir2, inode, parent, pb, FS))
    /\ UNCHANGED <<models, lists>>

SetFil ==
    /\ Running
    /\ \E inode \in InodeArgs, parent \in ParentArgs, pb \in SlotArgs :
          Done(Call("set_fil", NameFile, inode, parent, {pb}, 0),
               set_fil(NameFile, inode, parent, pb, FS))
    /\ UNCHANGED <<models, lists>>

Mkdir ==
    /\ Running
    /\ \E name \in NameArgs, idx \in MkdirIdxArgs, parent \in MkdirParentArgs,
          pdb \in {{}, {1}} :
          LET r == mkdir(lists, FS, name, idx, parent, pdb)
              ms == IF r.err = "ok" THEN Append(models, CHOOSE m \in r.ret : TRUE)
                    ELSE models
          IN  /\ Done(Call("mkdir", name, idx, parent, pdb, 0), r)
              /\ models' = ms
              /\ lists' = Alive(r.lists, ms)

NewTInode ==
    /\ Running
    /\ \E name \in NameArgs, parent \in ParentArgs \cup {0}, blocks \in BlockListArgs :
          LET w == Construct(Objects, FS, name, directory, parent, blocks)
          IN  /\ Done(Call("TInode", name, 0, parent, {}, 0) @@ [blocks |-> blocks],
                      [fs |-> FS, err |-> w.err])
              /\ models' = w.models
              /\ lists' = w.lists

\* a call of a method of the object models[self]: the volume is not written
MethodDone(c, err, line) ==
    /\ last' = c @@ [outcome |-> err, line |-> line]
    /\ calls' = calls + 1
    /\ UNCHANGED <<s_block, free_list, inodes, data_blocks, fixture>>

Pin ==
    /\ Running
    /\ \E self \in DOMAIN models, idx \in PinArgs :
          LET r == TInode_pin(models[self], idx)
          IN  /\ MethodDone([op |-> "pin", self |-> self, idx |-> idx],
                            r.err, IF r.err = "ok" THEN 0 ELSE 141)
              /\ models' = [models EXCEPT ![self] = r.self]
              /\ UNCHANGED lists

SetItem ==
    /\ Running
    /\ \E self \in DOMAIN models, key \in KeyArgs, value \in ValueArgs :
          LET r == TInode_setitem(lists, models[self], key, value)
          IN  /\ MethodDone([op |-> "setitem", self |-> self, key |-> key,
                             value |-> value], r.err, 0)
              /\ models' = [models EXCEPT ![self] = r.self]
              /\ lists' = r.lists

Check ==
    /\ Running
    /\ \E self \in DOMAIN models, idx \in {{}, {2}}, check_parents \in BOOLEAN :
          \E r \in TInode_check(lists, FS, models[self], idx, check_parents) :
              /\ MethodDone([op |-> "check", self |-> self, idx |-> idx,
                             check_parents |-> check_parents], r.err, r.line)
              /\ UNCHANGED <<models, lists>>

SetDataBlock ==
    /\ Running
    /\ \E block_num \in BlockArgs, data_size \in SizeArgs,
          parent_inode \in OwnerArgs, pbn \in SlotArgs :
          Done(Call("set_data_block", <<>>, block_num, parent_inode, {pbn}, data_size),
               set_data_block(block_num, PayloadByte, data_size, parent_inode, pbn, FS))
    /\ UNCHANGED <<models, lists>>

Next ==
    SetDir \/ SetFil \/ Mkdir \/ NewTInode \/ SetDataBlock \/ Pin \/ SetItem \/ Check

Spec == Init /\ [][Next]_vars

\* the insertion operations alone, and the attachment of data blocks alone
NextInsert == SetDir \/ SetFil \/ Mkdir \/ NewTInode
SpecInsert == Init /\ [][NextInsert]_vars

NextAttach == SetDataBlock
SpecAttach == Init /\ [][NextAttach]_vars

\* the expectation objects alone, on the volumes with something to check
CheckFixtures == {"tree", "file"}
InitCheck == Init /\ fixture \in CheckFixtures
NextCheck == NewTInode \/ Pin \/ SetItem \/ Check
SpecCheck == InitCheck /\ [][NextCheck]_vars

-----------------------------------------------------------------------------
(* Properties                                                              *)

VolumeUnchanged ==
    /\ s_block' = s_block
    /\ free_list' = free_list
    /\ inodes' = inodes
    /\ data_blocks' = data_blocks

\* the slots of inode record ino before its first empty slot
PrefixLen(ino) ==
    LET E == {i \in Slots : ino.direct_blocks[i] = EMPTY}
    IN  IF E = {} THEN DIRECT_BLOCKS_COUNT ELSE CHOOSE i \in E : \A j \in E : i <= j

\* the sum of the sizes of the blocks the slots 0..n-1 of ino refer to
RECURSIVE PrefixSum(_, _)
PrefixSum(ino, n) ==
    IF n = 0 THEN 0
    ELSE PrefixSum(ino, n - 1) + data_blocks[ino.direct_blocks[n - 1]].size

\* the arguments of the mkdir call c meet what section 4.2 asks of them on
\* the volume the (unprimed) variables hold
MkdirArgsValid(c) ==
    /\ Len(c.name) = NAME_MAX_LENGTH
    /\ c.idx > 0 /\ c.idx < s_block.num_blocks
    /\ c.parent > 0 /\ c.parent < s_block.num_blocks
    /\ inodes[c.parent].n_type = directory

\* C1: a set_data_block call with data_size > 1024 is rejected (the process
\* exits) and the superblock, the free list, every inode and every data
\* block are the same after the call as before it.
C1_OversizeRejected ==
    [][(last'.op = "set_data_block" /\ last'.size > BLOCK_SIZE)
          => (last'.outcome = "SystemExit" /\ VolumeUnchanged)]_vars

C1_Witness ==
    /\ last.op = "set_data_block"
    /\ last.size > BLOCK_SIZE
    /\ last.outcome = "SystemExit"
    /\ inodes[last.parent].direct_blocks[0] # EMPTY
    /\ inodes[last.parent].size > 0

\* C2: in every reachable state free_blocks lies in 0 .. num_blocks.
C2_FreeBlocksInRange ==
    u32_le(s_block.free_blocks, u32(s_block.num_blocks))

\* C3: in every reachable state free_blocks equals the number of free-list
\* entries still marked free.
C3_FreeBlocksIsFreeCount ==
    s_block.free_blocks =
        u32(Cardinality({b \in DOMAIN free_list : free_list[b] # 0}))

\* C4: after a set_data_block call that got past its size test (one that
\* returned, or one whose scan ran off the twelfth slot) the owner's size is
\* the sum of the sizes of the blocks in the slots before its first -1.
C4_SizeIsPrefixSum ==
    (last.op = "set_data_block" /\ last.outcome \in {"ok", "IndexError"})
        => inodes[last.parent].size =
              PrefixSum(inodes[last.parent], PrefixLen(inodes[last.parent]))

C4_Witness ==
    /\ last.op = "set_data_block"
    /\ last.outcome = "ok"
    /\ PrefixLen(inodes[last.parent]) >= 3
    /\ inodes[last.parent].size > 2 * BLOCK_SIZE

\* C5: every slot of a directory that is not -1 refers to an inode whose
\* parent is that directory.
C5_ChildrenPointBack ==
    \A d \in DOMAIN inodes :
        inodes[d].n_type = directory =>
            \A s \in Slots :
                inodes[d].direct_blocks[s] # EMPTY =>
                    inodes[inodes[d].direct_blocks[s]].parent = d

\* C6: mkdir without parent_direct_block, with valid arguments and a parent
\* that has a slot holding -1, writes idx into the lowest such slot, leaves
\* the parent's other slots alone and sets the parent field of inode idx.
C6_MkdirTakesFirstEmptySlot ==
    [][(/\ last'.op = "mkdir"
        /\ last'.slot = {}
        /\ MkdirArgsValid(last')
        /\ first_empty(FS, last'.parent) # {})
          => (/\ inodes'[last'.parent].direct_blocks =
                    [inodes[last'.parent].direct_blocks EXCEPT
                        ![CHOOSE i \in first_empty(FS, last'.parent) : TRUE] = last'.idx]
              /\ inodes'[last'.idx].parent = last'.parent)]_vars

\* C7: mkdir without parent_direct_block on a parent none of whose slots
\* holds -1 ends in an error and changes nothing of the volume.
C7_FullParentNoMutation ==
    [][(/\ last'.op = "mkdir"
        /\ last'.slot = {}
        /\ last'.parent \in DOMAIN inodes
        /\ first_empty(FS, last'.parent) = {})
          => (/\ last'.outcome # "ok" /\ VolumeUnchanged
              /\ models' = models /\ lists' = lists)]_vars

C7_Witness ==
    /\ last.op = "mkdir"
    /\ last.slot = {}
    /\ MkdirArgsValid(last)
    /\ first_empty(FS, last.parent) = {}
    /\ last.outcome # "ok"

\* C8: a mkdir call with valid arguments and no block list succeeds and
\* leaves -1 in all twelve slots of the new inode, and a TInode built
\* without a block list (the object mkdir builds and returns) has -1 in all
\* twelve of its blocks.
C8_NewInodeSlotsEmpty ==
    /\ (last.op = "mkdir" /\ last.outcome = "ok")
          => \A s \in Slots : inodes[last.idx].direct_blocks[s] = EMPTY
    /\ ((last.op = "mkdir" \/ (last.op = "TInode" /\ last.blocks = {}))
           /\ last.outcome = "ok")
          => (/\ models # <<>>
              /\ \A s \in Slots : lists[models[Len(models)].blocks][s + 1] = EMPTY)

\* C9: the type of an inode changes only from unallocated to directory or
\* from unallocated to file.
C9_TypeOnlyLeavesUnallocated ==
    [][\A i \in DOMAIN inodes :
          inodes'[i].n_type # inodes[i].n_type
              => (inodes[i].n_type = free_block
                  /\ inodes'[i].n_type \in {directory, reg_file})]_vars

\* C10: an insertion (mkdir, set_dir, set_fil) whose parent is not a
\* directory fails and leaves the inode table as it was.
C10_NonDirectoryParentRejected ==
    [][(/\ last'.op \in {"mkdir", "set_dir", "set_fil"}
        /\ last'.parent \in DOMAIN inodes
        /\ inodes[last'.parent].n_type # directory)
          => (last'.outcome # "ok" /\ inodes' = inodes)]_vars

\* the inode a pinned object m is pinned to
Target(m) == CHOOSE i \in m.idx : TRUE

\* m is pinned to an inode of the table other than inode 0
PinnedInRange(m) == m.idx # {} /\ Target(m) > 0 /\ Target(m) < s_block.num_blocks

\* the name, type and parent of the stored inode are those of m
FieldsMatch(m) ==
    /\ decode(inodes[Target(m)].name) = m.name
    /\ inodes[Target(m)].n_type = m.n_type
    /\ inodes[Target(m)].parent = m.parent

\* the stored slots are the blocks of m, position by position
BlocksMatch(m) ==
    \A i \in Slots : inodes[Target(m)].direct_blocks[i] = lists[m.blocks][i + 1]

\* inode i is in a slot of the inode its parent field names
InParentSlots(i) ==
    /\ inodes[i].parent \in DOMAIN inodes
    /\ \E s \in Slots : inodes[inodes[i].parent].direct_blocks[s] = i

\* C11: a mkdir call with valid arguments under a directory parent (a slot
\* given, or the parent having an empty one) creates the directory and
\* returns a model with which check, check_parents enabled, succeeds on the
\* volume the call leaves.
C11_MkdirModelPassesCheck ==
    [][(/\ last'.op = "mkdir"
        /\ MkdirArgsValid(last')
        /\ (last'.slot # {} \/ first_empty(FS, last'.parent) # {}))
          => (/\ last'.outcome = "ok"
              /\ Len(models') = Len(models) + 1
              /\ TInode_check(lists', FS', models'[Len(models')], {}, TRUE)
                     = {[err |-> "ok", line |-> 0]})]_vars

\* C12: check with check_parents enabled passes on a directory whose fields
\* and slots match the model, whose index is in a slot of its parent and
\* whose slots other than -1 all refer to inodes with parent == its index,
\* however many of its slots hold -1.
C12_SentinelSlotsSkipped ==
    (/\ last.op = "check"
     /\ last.check_parents
     /\ PinnedInRange(models[last.self])
     /\ inodes[Target(models[last.self])].n_type = directory
     /\ FieldsMatch(models[last.self])
     /\ BlocksMatch(models[last.self])
     /\ InParentSlots(Target(models[last.self]))
     /\ \A s \in Slots :
           LET b == inodes[Target(models[last.self])].direct_blocks[s]
           IN  b # EMPTY => (b \in DOMAIN inodes
                             /\ inodes[b].parent = Target(models[last.self])))
        => last.outcome = "ok"

\* C13: a write of a slot of one model through __setitem__ changes the
\* blocks of no other model and not the default of the blocks parameter, and
\* a model built without a block list after it has the blocks every such
\* model starts with.
C13_ModelsShareNoBlocks ==
    [][/\ last'.op = "setitem"
            => (/\ \A j \in DOMAIN models \ {last'.self} :
                      lists'[models'[j].blocks] = lists[models[j].blocks]
                /\ lists'[DefaultRef] = DefaultBlocks)
       /\ (last'.op = "TInode" /\ last'.outcome = "ok" /\ last'.blocks = {})
            => lists'[models'[Len(models')].blocks] = DefaultBlocks]_vars

\* two models built without a block list, one of them written at slot 1
C13_Witness ==
    /\ last.op = "setitem"
    /\ last.outcome = "ok"
    /\ last.key = IntVal(1)
    /\ lists[models[last.self].blocks] = [DefaultBlocks EXCEPT ![2] = 3]
    /\ \E j \in DOMAIN models \ {last.self} :
          lists[models[j].blocks] = DefaultBlocks

\* C14: in every reachable state the slots of a file form a contiguous
\* prefix: no slot holding a block index comes after a slot holding -1.
C14_FileSlotsContiguous ==
    \A i \in DOMAIN inodes :
        inodes[i].n_type = reg_file =>
            \A s \in Slots :
                inodes[i].direct_blocks[s] # EMPTY =>
                    \A t \in 0 .. (s - 1) : inodes[i].direct_blocks[t] # EMPTY

\* C15: when the stored inode matches the model in name, type and parent,
\* differs from it in some position of direct_blocks and is in no slot of
\* its parent, check with check_parents enabled fails at the positional
\* comparison of direct_blocks.
C15_PositionalBeforeParentSlots ==
    (/\ last.op = "check"
     /\ last.check_parents
     /\ PinnedInRange(models[last.self])
     /\ FieldsMatch(models[last.self])
     /\ ~BlocksMatch(models[last.self])
     /\ inodes[Target(models[last.self])].parent \in DOMAIN inodes
     /\ ~InParentSlots(Target(models[last.self])))
        => (last.outcome = "AssertionError" /\ last.line = 172)

\* C16: check fails whenever the stored direct_blocks differ from the
\* blocks of the model in any of the twelve positions.
C16_PositionalMismatchFails ==
    (/\ last.op = "check"
     /\ PinnedInRange(models[last.self])
     /\ ~BlocksMatch(models[last.self]))
        => last.outcome # "ok"

\* the two hold the same values in different positions, nothing else
\* differs, and the positional comparison is what fails
C16_Witness ==
    /\ last.op = "check"
    /\ ~last.check_parents
    /\ PinnedInRange(models[last.self])
    /\ FieldsMatch(models[last.self])
    /\ ~BlocksMatch(models[last.self])
    /\ {inodes[Target(models[last.self])].direct_blocks[i] : i \in Slots}
          = {lists[models[last.self].blocks][i + 1] : i \in Slots}
    /\ last.outcome = "AssertionError"
    /\ last.line = 172

\* C17: a set_data_block call with data_size <= 1024 runs to completion: it
\* returns, with the block marked used in the free list.
C17_AttachRunsToCompletion ==
    (last.op = "set_data_block" /\ last.size <= BLOCK_SIZE)
        => (last.outcome = "ok" /\ free_list[last.idx] = 0)

\* C18: a mkdir call with valid arguments and a slot given returns, having
\* written idx into that slot, and changes nothing but the inode record at
\* idx and that slot of the parent: every other inode record, the other
\* slots and fields of the parent, the data blocks, the free list and the
\* superblock are as before.
C18_MkdirChangesOnlyItsTargets ==
    [][(/\ last'.op = "mkdir"
        /\ last'.slot # {}
        /\ MkdirArgsValid(last'))
          => (/\ last'.outcome = "ok"
              /\ \A s \in last'.slot :
                    inodes'[last'.parent].direct_blocks[s] = last'.idx
              /\ \A i \in DOMAIN inodes \ {last'.idx, last'.parent} :
                    inodes'[i] = inodes[i]
              /\ last'.parent # last'.idx =>
                    \A s \in Slots \ last'.slot :
                        inodes'[last'.parent].direct_blocks[s] =
                            inodes[last'.parent].direct_blocks[s]
              /\ last'.parent # last'.idx =>
                    [inodes'[last'.parent] EXCEPT !.direct_blocks = <<>>] =
                        [inodes[last'.parent] EXCEPT !.direct_blocks = <<>>]
              /\ data_blocks' = data_blocks
              /\ free_list' = free_list
              /\ s_block' = s_block)]_vars

====
